---------------------------- MODULE Spec2Model ----------------------------
(***************************************************************************)
(* Timetable generation engine of PDQA: TimetableScheduler                 *)
(* (src/src/scheduler/timetable_scheduler.py) run over a catalog of        *)
(* faculties, subjects, venues and sections (src/src/database).            *)
(*                                                                         *)
(* Conventions of the translation:                                         *)
(*  - a time string "HH:MM" is the pair <<HH, MM>>; _time_to_minutes and   *)
(*    _minutes_to_time convert as the code does;                           *)
(*  - a subject code is a number standing for a code string of one fixed   *)
(*    width ("CS301" < "CS302"), compared as Python compares the strings;  *)
(*  - Python's None for a subsection is the string "None"; an Optional     *)
(*    placement is a sequence of length 0 (None) or 1;                     *)
(*  - a dict is a function whose DOMAIN is the set of its keys, {} is <<>>;*)
(*  - list indexes are 0-based in the code and kept 0-based in             *)
(*    current_subject_index; sequences are 1-based, hence the "+ 1".       *)
(***************************************************************************)
EXTENDS Integers, Sequences, FiniteSets, TLC

VARIABLES
    db,                     \* rows the db_manager returns: faculties, subjects, venues, sections
    settings,               \* the GenerationSettings of the run
    pc,                     \* "idle" | "schedule" | "done" | "raised"
    data,                   \* generate_timetable's local: the loaded generation data
    time_slots,             \* generate_timetable's local: the time grid
    sorted_subjects,        \* generate_timetable's local: subjects in processing order
    current_subject_index,  \* _schedule_subjects' local
    backtrack_stack,        \* _schedule_subjects' local
    assignments,            \* self.assignments
    conflicts,              \* self.conflicts
    faculty_schedule,       \* self.faculty_schedule
    venue_schedule,         \* self.venue_schedule
    section_schedule,       \* self.section_schedule
    generate_btn,           \* the generation tab's button is enabled
    generation_thread,      \* the tab's self.generation_thread: a thread's index, 0 before the first
    threads,                \* the GenerationThread objects started, in order of their start
    schedulers,             \* the TimetableScheduler objects the threads have constructed
    returned                \* what the scheduler's earlier calls gave back to their caller, in order

scheduler_vars == <<db, settings, pc, data, time_slots, sorted_subjects,
                    current_subject_index, backtrack_stack, assignments, conflicts,
                    faculty_schedule, venue_schedule, section_schedule>>

window_vars == <<generate_btn, generation_thread, threads, schedulers>>

vars == <<scheduler_vars, window_vars, returned>>

-----------------------------------------------------------------------------
(* Bounds of the model *)

MaxFaculties == 2
MaxVenues == 2
MaxSections == 2
MaxSubjects == 2
MaxDays == 2
MaxDuration == 2
MaxHoursPerDay == 2
MaxSpan == 6
MaxRuns == 2
MaxCohort == 2
MaxCalls == 3

(* Program constants *)

max_backtrack_depth == 50
DefaultMaxHours == 6
DefaultLabDuration == 2
DefaultLectureDuration == 1
DefaultCapacity == 60
DefaultStrength == 60

None == "None"

Min(S) == CHOOSE x \in S : \A y \in S : x <= y

-----------------------------------------------------------------------------
(* Time strings *)

_time_to_minutes(time_string) == time_string[1] * 60 + time_string[2]

_minutes_to_time(minutes) == <<minutes \div 60, minutes % 60>>

_calculate_end_time(start_time, duration) ==
    _minutes_to_time(_time_to_minutes(start_time) + duration * 60)

TimeSlot(start_time, end_time, day) ==
    [start_time |-> start_time, end_time |-> end_time, day |-> day]

Conflict(type, subject_code, details, severity) ==
    [type |-> type, subject_code |-> subject_code, details |-> details,
     severity |-> severity]

DayNames == <<"Mon", "Tue", "Wed", "Thu", "Fri", "Sat">>

GenerationSettings(sections, start_time, end_time, lunch_start, lunch_end, days, max_hours_per_day, lab_duration, lecture_duration) ==
    [sections |-> sections, start_time |-> start_time, end_time |-> end_time,
     lunch_start |-> lunch_start, lunch_end |-> lunch_end, days |-> days,
     max_hours_per_day |-> max_hours_per_day, lab_duration |-> lab_duration,
     lecture_duration |-> lecture_duration]

-----------------------------------------------------------------------------
(* The time grid *)

\* (mutant) range(start, end + 1, 60): an hour beginning at end is included
HourRangeInclusive(start, end) ==
    [k \in 1..(IF end >= start THEN (end - start) \div 60 + 1 ELSE 0) |->
        start + (k - 1) * 60]

\* range(start, end, 60)
HourRange(start, end) ==
    [k \in 1..(IF end > start THEN (end - start + 59) \div 60 ELSE 0) |->
        start + (k - 1) * 60]

_generate_time_slots(s) ==
    LET start == _time_to_minutes(s.start_time)
        end == _time_to_minutes(s.end_time)
        lunch_start == _time_to_minutes(s.lunch_start)
        lunch_end == _time_to_minutes(s.lunch_end)
        NotLunch(time) == ~(time >= lunch_start /\ time < lunch_end)
        kept == SelectSeq(HourRange(start, end), NotLunch)
        perDay == Len(kept)
    IN  [m \in 1..(Len(s.days) * perDay) |->
            LET day == s.days[((m - 1) \div perDay) + 1]
                time == kept[((m - 1) % perDay) + 1]
            IN  TimeSlot(_minutes_to_time(time), _minutes_to_time(time + 60), day)]

-----------------------------------------------------------------------------
(* Subject ordering *)

\* the sort key (not s.is_lab, s.duration, s.code), compared as Python tuples
KeyLess(a, b) ==
    \/ (a.is_lab /\ ~b.is_lab)
    \/ (a.is_lab = b.is_lab /\ a.duration < b.duration)
    \/ (a.is_lab = b.is_lab /\ a.duration = b.duration /\ a.code < b.code)

\* sorted() is stable: equal keys keep their input order
_prioritize_subjects(subjects) ==
    LET n == Len(subjects)
        Rank(i) == Cardinality({j \in 1..n :
                        \/ KeyLess(subjects[j], subjects[i])
                        \/ (~KeyLess(subjects[i], subjects[j]) /\ j < i)}) + 1
    IN  [p \in 1..n |-> subjects[CHOOSE i \in 1..n : Rank(i) = p]]

-----------------------------------------------------------------------------
(* Busy-maps: Dict[int, Dict[str, List[TimeSlot]]] *)

\* self.X_schedule[id].get(day, []) behind the "id not in self.X_schedule" test
DaySchedule(schedule, id, day) ==
    IF id \in DOMAIN schedule
    THEN (IF day \in DOMAIN schedule[id] THEN schedule[id][day] ELSE <<>>)
    ELSE <<>>

\* (mutant) the day's list is set to the new slot instead of appended to
AppendToScheduleReplacesDay(schedule, id, day, slot) ==
    LET old == IF id \in DOMAIN schedule THEN schedule[id] ELSE <<>>
        new == [d \in (DOMAIN old) \cup {day} |-> IF d = day THEN <<slot>> ELSE old[d]]
    IN  [k \in (DOMAIN schedule) \cup {id} |-> IF k = id THEN new ELSE schedule[k]]

\* one of the three blocks of _update_schedules
AppendToSchedule(schedule, id, day, slot) ==
    LET old == IF id \in DOMAIN schedule THEN schedule[id] ELSE <<>>
        new == [d \in (DOMAIN old) \cup {day} |->
                   IF d = day
                   THEN Append(IF day \in DOMAIN old THEN old[day] ELSE <<>>, slot)
                   ELSE old[d]]
    IN  [k \in (DOMAIN schedule) \cup {id} |-> IF k = id THEN new ELSE schedule[k]]

\* _remove_from_schedules is "pass": the busy-maps are left as they are
_remove_from_schedules(schedule, assignment) == schedule

-----------------------------------------------------------------------------
(* Constraint checks *)

_slots_overlap(slot1, slot2, duration) ==
    LET start1 == _time_to_minutes(slot1.start_time)
        end1 == start1 + (duration * 60)
        start2 == _time_to_minutes(slot2.start_time)
        end2 == start2 + 60
    IN  ~(end1 <= start2 \/ end2 <= start1)

HasConflict(schedule, id, slot, duration) ==
    LET day_schedule == DaySchedule(schedule, id, slot.day)
    IN  \E i \in 1..Len(day_schedule) : _slots_overlap(slot, day_schedule[i], duration)

\* (mutant) the instructor's busy-map is not looked at
_faculty_has_conflictNever(faculty_id, slot, duration) ==
    FALSE

_faculty_has_conflict(faculty_id, slot, duration) ==
    HasConflict(faculty_schedule, faculty_id, slot, duration)

_venue_has_conflict(venue_id, slot, duration) ==
    HasConflict(venue_schedule, venue_id, slot, duration)

_section_has_conflict(section_id, slot, duration) ==
    HasConflict(section_schedule, section_id, slot, duration)

\* (mutant) reaching the limit already counts as exceeding it
_faculty_exceeds_daily_limitAtLimit(faculty_id, day, duration, max_hours) ==
    IF faculty_id \notin DOMAIN faculty_schedule
    THEN duration >= max_hours
    ELSE LET current_hours == Len(DaySchedule(faculty_schedule, faculty_id, day))
         IN  (current_hours + duration) >= max_hours

_faculty_exceeds_daily_limit(faculty_id, day, duration, max_hours) ==
    IF faculty_id \notin DOMAIN faculty_schedule
    THEN duration > max_hours
    ELSE LET current_hours == Len(DaySchedule(faculty_schedule, faculty_id, day))
         IN  (current_hours + duration) > max_hours

_can_accommodate_duration(slot, duration, all_slots) ==
    IF duration = 1
    THEN TRUE
    ELSE LET current_time == _time_to_minutes(slot.start_time)
         IN  \A i \in 0..(duration - 1) :
                LET check_time == current_time + (i * 60)
                IN  \E k \in 1..Len(all_slots) :
                        /\ all_slots[k].start_time = _minutes_to_time(check_time)
                        /\ all_slots[k].day = slot.day

\* (mutant) the daily limit is not looked at
_is_valid_placementNoDailyLimit(subject, faculty, section, venue, slot, duration, s) ==
    /\ ~_faculty_has_conflict(faculty.id, slot, duration)
    /\ ~_venue_has_conflict(venue.id, slot, duration)
    /\ ~_section_has_conflict(section.id, slot, duration)

_is_valid_placement(subject, faculty, section, venue, slot, duration, s) ==
    /\ ~_faculty_has_conflict(faculty.id, slot, duration)
    /\ ~_venue_has_conflict(venue.id, slot, duration)
    /\ ~_section_has_conflict(section.id, slot, duration)
    /\ ~_faculty_exceeds_daily_limit(faculty.id, slot.day, duration, s.max_hours_per_day)

_select_subsection(section, subject) ==
    IF section.subsections = <<>> THEN None ELSE section.subsections[1]

\* (mutant) no filter: every venue of the catalog
AvailableVenuesAnyKind(subject, venues) ==
    venues

\* the venue filter at the head of _find_best_placement
AvailableVenues(subject, venues) ==
    LET Matches(v) == \/ (subject.is_lab /\ v.venue_type = "lab")
                      \/ (~subject.is_lab /\ v.venue_type = "lecture")
    IN  SelectSeq(venues, Matches)

\* the first combination, in the order of the four nested loops, that passes;
\* <<>> stands for None
_find_best_placement(subject, d, slots, s) ==
    LET available_faculties == d.faculties
        available_venues == AvailableVenues(subject, d.venues)
        duration == IF subject.is_lab THEN s.lab_duration ELSE s.lecture_duration
        FS == 1..Len(available_faculties)
        CS == 1..Len(d.sections)
        VS == 1..Len(available_venues)
        Passes(f, c, t, v) ==
            _is_valid_placement(subject, available_faculties[f], d.sections[c],
                                available_venues[v], slots[t], duration, s)
        \* the slot loop for one faculty and section: the first slot from t on
        \* that fits the duration and has a venue that passes, 0 if there is none
        RECURSIVE FirstSlot(_, _, _)
        FirstSlot(f, c, t) ==
            IF t > Len(slots)
            THEN 0
            \* (the two tests have no effect on the state; the cheaper one first)
            ELSE IF /\ \E v \in VS : Passes(f, c, t, v)
                    /\ _can_accommodate_duration(slots[t], duration, slots)
                 THEN t
                 ELSE FirstSlot(f, c, t + 1)
        okF == {f \in FS : \E c \in CS : FirstSlot(f, c, 1) # 0}
    IN  IF okF = {}
        THEN <<>>
        \* the loop variables are bound one after the other, each to the one
        \* value it has when the loops return
        ELSE LET Placement(f, c, t, v) ==
                     <<[faculty |-> available_faculties[f],
                        section |-> d.sections[c],
                        subsection |-> IF subject.is_lab
                                       THEN _select_subsection(d.sections[c], subject)
                                       ELSE None,
                        venue |-> available_venues[v],
                        day |-> slots[t].day,
                        start_time |-> slots[t].start_time,
                        duration |-> duration]>>
                 AtSlot(f, c, t) ==
                     CHOOSE p \in {Placement(f, c, t, v) :
                                      v \in {Min({x \in VS : Passes(f, c, t, x)})}} : TRUE
                 AtSection(f, c) ==
                     CHOOSE p \in {AtSlot(f, c, t) : t \in {FirstSlot(f, c, 1)}} : TRUE
                 AtFaculty(f) ==
                     CHOOSE p \in {AtSection(f, c) :
                                      c \in {Min({x \in CS : FirstSlot(f, x, 1) # 0})}} : TRUE
             IN  CHOOSE p \in {AtFaculty(f) : f \in {Min(okF)}} : TRUE

\* (mutant) the assignment is filed under the section's id instead of the
\* subject's
ClassAssignmentSectionAsSubject(subject, placement) ==
    [subject_id |-> placement.section.id,
     faculty_id |-> placement.faculty.id,
     section_id |-> placement.section.id,
     subsection |-> placement.subsection,
     venue_id |-> placement.venue.id,
     day |-> placement.day,
     start_time |-> placement.start_time,
     duration |-> placement.duration]

ClassAssignment(subject, placement) ==
    [subject_id |-> subject.id,
     faculty_id |-> placement.faculty.id,
     section_id |-> placement.section.id,
     subsection |-> placement.subsection,
     venue_id |-> placement.venue.id,
     day |-> placement.day,
     start_time |-> placement.start_time,
     duration |-> placement.duration]

\* (mutant) the conflict is filed under the code 'Unknown' (0), as the
\* validation pass files its conflicts, instead of under the subject's code
NoSlotConflictUnknownCode(subject) ==
    Conflict("constraint", 0, "No available slots found", "high")

\* (mutant) the conflict is filed with the type and severity the validation
\* pass gives its conflicts
NoSlotConflictFacultyType(subject) ==
    Conflict("faculty", subject.code, "No available slots found", "critical")

\* the Conflict appended when no placement is found and no backtrack is taken
NoSlotConflict(subject) ==
    Conflict("constraint", subject.code, "No available slots found", "high")

\* list.remove: drops the first element equal to x
RemoveFirst(seq, x) ==
    LET i == Min({k \in 1..Len(seq) : seq[k] = x})
    IN  [k \in 1..(Len(seq) - 1) |-> IF k < i THEN seq[k] ELSE seq[k + 1]]

\* _validate_assignments finds a second assignment with the same
\* "faculty_id-day-start_time" key; building that Conflict reads
\* assignment.subject.code on an assignment whose subject relationship is None
DuplicateFacultyKey ==
    \E i, j \in 1..Len(assignments) :
        /\ i < j
        /\ assignments[i].faculty_id = assignments[j].faculty_id
        /\ assignments[i].day = assignments[j].day
        /\ assignments[i].start_time = assignments[j].start_time

\* the list _validate_assignments returns when it returns: a Conflict is built
\* only for a duplicate key, and building it raises, so the list is empty
_validate_assignments == <<>>

-----------------------------------------------------------------------------
(* Catalog rows and the bounded input space *)

SectionNames == <<"A", "B", "C", "D">>

Seqs(S, n) == UNION {[1..k -> S] : k \in 0..n}

Faculty(id) == [id |-> id]

Venue(id, venue_type, capacity) ==
    [id |-> id, venue_type |-> venue_type, capacity |-> capacity]

Section(id, name, subsections, strength) ==
    [id |-> id, name |-> name, subsections |-> subsections, strength |-> strength]

\* preferred_faculty_ids is the attribute the faculty-subject mapping tab sets
Subject(id, code, is_lab, duration, preferred_faculty_ids) ==
    [id |-> id, code |-> code, is_lab |-> is_lab, duration |-> duration,
     preferred_faculty_ids |-> preferred_faculty_ids]

FacultyRows(n) == [i \in 1..n |-> Faculty(i)]

VenueRows(types) ==
    [i \in 1..Len(types) |-> Venue(i, types[i], DefaultCapacity)]

SectionKinds ==
    [subsections : {<<>>, <<"S1", "S2">>},
     strength : {DefaultStrength, DefaultStrength + 20}]

PlainSection == [subsections |-> <<>>, strength |-> DefaultStrength]

SectionRows(kinds) ==
    [i \in 1..Len(kinds) |->
        Section(i, SectionNames[i], kinds[i].subsections, kinds[i].strength)]

\* subjects whose duration follows their kind ("1 for lecture, 2 for lab")
PlainSubjectRows(labs, codes) ==
    [i \in 1..Len(labs) |->
        Subject(i, codes[i], labs[i], IF labs[i] THEN 2 ELSE 1, {})]

SubjectRows(codes, attrs) ==
    [i \in 1..Len(attrs) |->
        Subject(i, codes[i], attrs[i].is_lab, attrs[i].duration, attrs[i].preferred)]

Ascending(n) == [i \in 1..n |-> i]
Perms(n) == {f \in [1..n -> 1..n] : \A i, j \in 1..n : i # j => f[i] # f[j]}

Catalog(faculties, subjects, venues, sections) ==
    [faculties |-> faculties, subjects |-> subjects, venues |-> venues,
     sections |-> sections]

\* one instructor, one room of each kind, one plain section
SmallCatalog(subjects) ==
    Catalog(FacultyRows(1), subjects, VenueRows(<<"lecture", "lab">>),
            SectionRows(<<PlainSection>>))

DefaultSettings(selected) ==
    GenerationSettings(selected, <<9, 0>>, <<18, 0>>, <<13, 0>>, <<14, 0>>,
                       DayNames, DefaultMaxHours, DefaultLabDuration,
                       DefaultLectureDuration)

SelectedChoices == {{SectionNames[i] : i \in 1..k} : k \in 1..MaxSections}

\* The input space is the union of eight families; each varies one aspect of the
\* catalog or of the settings over all its values within the bounds.

\* the sizes of the four tables and the kinds of subjects and venues
ResourceRequests ==
    {<<Catalog(FacultyRows(nf), PlainSubjectRows(labs, Ascending(MaxSubjects)),
               VenueRows(types),
               SectionRows([i \in 1..ns |-> PlainSection])),
       DefaultSettings(selected)>> :
        nf \in 0..MaxFaculties,
        labs \in Seqs(BOOLEAN, MaxSubjects),
        types \in Seqs({"lecture", "lab"}, MaxVenues),
        ns \in 0..MaxSections,
        selected \in SelectedChoices}

\* the strength and the subsections of the sections, and which are selected
SectionRequests ==
    {<<Catalog(FacultyRows(1), PlainSubjectRows(labs, Ascending(MaxSubjects)),
               VenueRows(<<"lecture", "lab">>), SectionRows(kinds)),
       DefaultSettings(selected)>> :
        labs \in Seqs(BOOLEAN, MaxSubjects),
        kinds \in Seqs(SectionKinds, MaxSections),
        selected \in SelectedChoices}

\* the working day and the lunch window on a half-hour raster from 09:00
WindowRequests ==
    {<<SmallCatalog(PlainSubjectRows(labs, Ascending(MaxSubjects))),
       GenerationSettings({"A"}, <<9, 0>>, _minutes_to_time(540 + 30 * e),
                          _minutes_to_time(540 + 30 * l),
                          _minutes_to_time(540 + 30 * l + len),
                          SubSeq(DayNames, 1, nd), DefaultMaxHours, lab,
                          DefaultLectureDuration)>> :
        labs \in Seqs(BOOLEAN, MaxSubjects),
        e \in 0..MaxSpan, l \in 0..MaxSpan, len \in {0, 60},
        nd \in 0..MaxDays, lab \in 1..MaxDuration}

\* the daily limit and the two session durations
LimitRequests ==
    {<<SmallCatalog(PlainSubjectRows(labs, Ascending(MaxSubjects))),
       GenerationSettings({"A"}, <<9, 0>>, _minutes_to_time(540 + 30 * e),
                          <<13, 0>>, <<14, 0>>, SubSeq(DayNames, 1, nd), mh, lab, lec)>> :
        labs \in Seqs(BOOLEAN, MaxSubjects),
        e \in 0..MaxSpan, nd \in 1..MaxDays,
        mh \in (1..MaxHoursPerDay) \cup {DefaultMaxHours},
        lab \in 1..MaxDuration, lec \in 1..MaxDuration}

\* the preferred-instructor sets: empty, or naming instructor MaxFaculties, who
\* is in the catalog only when it has MaxFaculties rows
PreferenceRequests ==
    {<<Catalog(FacultyRows(nf),
               SubjectRows(Ascending(MaxSubjects),
                           [i \in 1..Len(attrs) |->
                               [is_lab |-> attrs[i].is_lab,
                                duration |-> IF attrs[i].is_lab THEN 2 ELSE 1,
                                preferred |-> attrs[i].preferred]]),
               VenueRows(<<"lecture", "lab">>), SectionRows(<<PlainSection>>)),
       DefaultSettings({"A"})>> :
        nf \in 1..MaxFaculties,
        attrs \in Seqs([is_lab : BOOLEAN, preferred : {{}, {MaxFaculties}}],
                       MaxSubjects)}

\* the sort keys of the subjects: kind, duration and code in every order
OrderingRequests ==
    {<<SmallCatalog(SubjectRows(r[1], r[2])), DefaultSettings({"A"})>> :
        r \in UNION {Perms(n) \X [1..n -> [is_lab : BOOLEAN, duration : 1..MaxDuration,
                                          preferred : {{}}]] :
                     n \in 0..MaxSubjects}}

\* one instructor and a working day of one hour on one day, for lectures in
\* every order of their codes, with rooms and sections to spare
SoleInstructorRequests ==
    {<<Catalog(FacultyRows(1),
               SubjectRows(codes, [i \in 1..Len(codes) |->
                                      [is_lab |-> FALSE, duration |-> 1, preferred |-> {}]]),
               VenueRows([i \in 1..nv |-> "lecture"]),
               SectionRows([i \in 1..ns |-> PlainSection])),
       GenerationSettings({SectionNames[i] : i \in 1..ns}, <<9, 0>>, <<10, 0>>,
                          <<13, 0>>, <<14, 0>>, SubSeq(DayNames, 1, 1), DefaultMaxHours,
                          DefaultLabDuration, DefaultLectureDuration)>> :
        codes \in UNION {Perms(n) : n \in 1..MaxSubjects},
        nv \in 1..MaxVenues, ns \in 1..MaxSections}

\* lectures that all compete for the one hour of a one-day week, with
\* instructors, rooms and sections up to the bounds
SharedHourRequests ==
    {<<Catalog(FacultyRows(nf),
               PlainSubjectRows([i \in 1..n |-> FALSE], Ascending(n)),
               VenueRows([i \in 1..nv |-> "lecture"]),
               SectionRows([i \in 1..ns |-> PlainSection])),
       GenerationSettings({SectionNames[i] : i \in 1..ns}, <<9, 0>>, <<10, 0>>,
                          <<13, 0>>, <<14, 0>>, SubSeq(DayNames, 1, 1), DefaultMaxHours,
                          DefaultLabDuration, DefaultLectureDuration)>> :
        n \in 1..MaxSubjects, nf \in 1..MaxFaculties,
        nv \in 1..MaxVenues, ns \in 1..MaxSections}

\* the run is asked for one catalog and one settings record of a family
Requested(family) == \E r \in family : db = r[1] /\ settings = r[2]

-----------------------------------------------------------------------------
(* The run *)

_load_generation_data(s) ==
    [subjects |-> db.subjects,
     venues |-> db.venues,
     sections |-> SelectSeq(db.sections, LAMBDA c : c.name \in s.sections),
     faculties |-> db.faculties]

\* the scheduler after __init__, before generate_timetable is called
SchedulerConstructed ==
    /\ pc = "idle"
    /\ data = Catalog(<<>>, <<>>, <<>>, <<>>)
    /\ time_slots = <<>>
    /\ sorted_subjects = <<>>
    /\ current_subject_index = 0
    /\ backtrack_stack = <<>>
    /\ assignments = <<>>
    /\ conflicts = <<>>
    /\ faculty_schedule = <<>>
    /\ venue_schedule = <<>>
    /\ section_schedule = <<>>

\* the generation tab before any generation is started
WindowAtRest ==
    /\ generate_btn = TRUE
    /\ generation_thread = 0
    /\ threads = <<>>
    /\ schedulers = <<>>

Init ==
    /\ WindowAtRest
    /\ returned = <<>>
    /\ \/ Requested(ResourceRequests)
       \/ Requested(SectionRequests)
       \/ Requested(WindowRequests)
       \/ Requested(LimitRequests)
       \/ Requested(PreferenceRequests)
       \/ Requested(OrderingRequests)
       \/ Requested(SoleInstructorRequests)
       \/ Requested(SharedHourRequests)
    /\ SchedulerConstructed

\* (mutant) generate_timetable without the reset of lines 102-104
generate_timetableKeepsState ==
    /\ pc = "idle"
    /\ data' = _load_generation_data(settings)
    /\ time_slots' = _generate_time_slots(settings)
    /\ sorted_subjects' = _prioritize_subjects(data'.subjects)
    /\ backtrack_stack' = <<>>
    /\ current_subject_index' = 0
    /\ pc' = "schedule"
    /\ UNCHANGED <<assignments, conflicts, faculty_schedule, venue_schedule,
                   section_schedule, db, settings, window_vars, returned>>

\* generate_timetable up to the call of _schedule_subjects
generate_timetable ==
    /\ pc = "idle"
    /\ assignments' = <<>>
    /\ conflicts' = <<>>
    /\ faculty_schedule' = <<>>
    /\ venue_schedule' = <<>>
    /\ section_schedule' = <<>>
    /\ data' = _load_generation_data(settings)
    /\ time_slots' = _generate_time_slots(settings)
    /\ sorted_subjects' = _prioritize_subjects(data'.subjects)
    /\ backtrack_stack' = <<>>
    /\ current_subject_index' = 0
    /\ pc' = "schedule"
    /\ UNCHANGED <<db, settings, window_vars, returned>>

\* _update_schedules: the slot carries the placement's start and its computed end
_update_schedules(assignment, placement) ==
    LET slot == TimeSlot(placement.start_time,
                         _calculate_end_time(placement.start_time, placement.duration),
                         placement.day)
    IN  /\ faculty_schedule' =
              AppendToSchedule(faculty_schedule, assignment.faculty_id, placement.day, slot)
        /\ venue_schedule' =
              AppendToSchedule(venue_schedule, assignment.venue_id, placement.day, slot)
        /\ section_schedule' =
              AppendToSchedule(section_schedule, assignment.section_id, placement.day, slot)

\* (mutant) a subject without placement is neither given a conflict nor
\* passed over: the loop stays at it
ScheduleSubjectStalls ==
    /\ pc = "schedule"
    /\ current_subject_index < Len(sorted_subjects)
    /\ \E subject \in {sorted_subjects[current_subject_index + 1]} :
       \E placement \in {_find_best_placement(subject, data, time_slots, settings)} :
           IF placement # <<>>
           THEN \E assignment \in {ClassAssignment(subject, placement[1])} :
                    /\ assignments' = Append(assignments, assignment)
                    /\ _update_schedules(assignment, placement[1])
                    /\ current_subject_index' = current_subject_index + 1
                    /\ backtrack_stack' = <<>>
                    /\ UNCHANGED conflicts
           ELSE UNCHANGED <<assignments, conflicts, current_subject_index,
                            backtrack_stack, faculty_schedule, venue_schedule,
                            section_schedule>>
    /\ UNCHANGED <<db, settings, pc, data, time_slots, sorted_subjects, window_vars,
                   returned>>

\* one iteration of the while loop of _schedule_subjects
ScheduleSubject ==
    /\ pc = "schedule"
    /\ current_subject_index < Len(sorted_subjects)
    /\ \E subject \in {sorted_subjects[current_subject_index + 1]} :
       \E placement \in {_find_best_placement(subject, data, time_slots, settings)} :
           IF placement # <<>>
           THEN \E assignment \in {ClassAssignment(subject, placement[1])} :
                    /\ assignments' = Append(assignments, assignment)
                    /\ _update_schedules(assignment, placement[1])
                    /\ current_subject_index' = current_subject_index + 1
                    /\ backtrack_stack' = <<>>
                    /\ UNCHANGED conflicts
           ELSE IF backtrack_stack # <<>> /\ Len(backtrack_stack) < max_backtrack_depth
                THEN LET last_assignment == backtrack_stack[Len(backtrack_stack)]
                     IN  /\ backtrack_stack' =
                               SubSeq(backtrack_stack, 1, Len(backtrack_stack) - 1)
                         /\ assignments' = RemoveFirst(assignments, last_assignment)
                         /\ faculty_schedule' =
                               _remove_from_schedules(faculty_schedule, last_assignment)
                         /\ venue_schedule' =
                               _remove_from_schedules(venue_schedule, last_assignment)
                         /\ section_schedule' =
                               _remove_from_schedules(section_schedule, last_assignment)
                         /\ current_subject_index' = current_subject_index - 1
                         /\ UNCHANGED conflicts
                ELSE /\ conflicts' = Append(conflicts, NoSlotConflict(subject))
                     /\ current_subject_index' = current_subject_index + 1
                     /\ UNCHANGED <<assignments, backtrack_stack, faculty_schedule,
                                    venue_schedule, section_schedule>>
    /\ UNCHANGED <<db, settings, pc, data, time_slots, sorted_subjects, window_vars,
                   returned>>

\* the loop has ended: the validation pass, then generate_timetable returns
\* (assignments, conflicts), or the exception of the validation pass propagates
ValidateAndReturn ==
    /\ pc = "schedule"
    /\ ~(current_subject_index < Len(sorted_subjects))
    /\ IF DuplicateFacultyKey
       THEN pc' = "raised" /\ UNCHANGED conflicts
       ELSE pc' = "done" /\ conflicts' = conflicts \o _validate_assignments
    /\ UNCHANGED <<db, settings, data, time_slots, sorted_subjects,
                   current_subject_index, backtrack_stack, assignments,
                   faculty_schedule, venue_schedule, section_schedule, window_vars,
                   returned>>

Next == generate_timetable \/ ScheduleSubject \/ ValidateAndReturn

Spec == Init /\ [][Next]_vars

\* the caller keeps the two lists it was given and calls generate_timetable of
\* the same scheduler again, with the settings of this call or of an earlier
\* one, or with the default week
CallAgain ==
    /\ pc = "done"
    /\ Len(returned) + 1 < MaxCalls
    /\ returned' = Append(returned, [settings |-> settings,
                                      assignments |-> assignments,
                                      conflicts |-> conflicts])
    /\ \E s \in {settings, DefaultSettings(settings.sections)}
                 \cup {returned[k].settings : k \in 1..Len(returned)} :
          settings' = s
    /\ pc' = "idle"
    /\ UNCHANGED <<db, data, time_slots, sorted_subjects, current_subject_index,
                   backtrack_stack, assignments, conflicts, faculty_schedule,
                   venue_schedule, section_schedule, window_vars>>

\* one scheduler called up to MaxCalls times in sequence, over one catalog
RerunInit ==
    /\ WindowAtRest
    /\ returned = <<>>
    /\ Requested(SharedHourRequests)
    /\ SchedulerConstructed

RerunNext == Next \/ CallAgain

RerunSpec == RerunInit /\ [][RerunNext]_vars

\* generate_timetable runs to its end once called: the loop is sequential code
\* of one thread, which takes its next step whenever it has one
FairSpec == Spec /\ WF_vars(Next)

-----------------------------------------------------------------------------
(* The generation tab and its threads *)

\* Each start of a generation creates a GenerationThread, whose run constructs
\* a TimetableScheduler and calls its generate_timetable. The runs of this
\* part are runs of the scheduler above over the catalog of a sole instructor,
\* one lecture venue and one section, for the one-hour lectures of a semester
\* and a working day of one hour: a subject takes the first day whose slot is
\* free in the three busy-maps, or is left with the conflict of NoSlotConflict.
\* A busy-map is the list of the days taken.

\* the settings of a run: the semester whose subjects it places, and one
\* working day or two
RunSettings == [semester : 1..MaxCohort, days : {1, 2}]

\* get_subjects for the semester of the settings: semester c has c subjects,
\* and no two semesters share a subject code
SemesterSubjects(semester) == [i \in 1..semester |-> [code |-> 10 * semester + i]]

\* the generation state of a TimetableScheduler after __init__
SchedulerObject ==
    [assignments |-> <<>>, conflicts |-> <<>>, faculty_schedule |-> <<>>,
     venue_schedule |-> <<>>, section_schedule |-> <<>>]

\* a GenerationThread after __init__; scheduler, sorted_subjects and
\* current_subject_index are locals of its run, result is what its call of
\* generate_timetable returned (<<>> before it returns)
GenerationThread(s) ==
    [settings |-> s, pc |-> "started", scheduler |-> 0, sorted_subjects |-> <<>>,
     current_subject_index |-> 0, result |-> <<>>]

\* (mutant) every run uses the scheduler object constructed first
TimetableSchedulerShared(t) == 1

\* TimetableScheduler(self.db_manager) in the run of thread t: a new object,
\* named by its position among the objects constructed
TimetableScheduler(t) == Len(schedulers) + 1

start_generation_process(s) ==
    /\ generate_btn' = FALSE
    /\ threads' = Append(threads, GenerationThread(s))
    /\ generation_thread' = Len(threads) + 1
    /\ UNCHANGED <<schedulers, scheduler_vars, returned>>

\* TimetableGenerationTab.generate_timetable on the button's clicked signal,
\* which a disabled button does not emit
TabGenerateTimetable ==
    /\ generate_btn
    /\ Len(threads) < MaxRuns
    /\ \E s \in RunSettings : start_generation_process(s)

\* MainWindow.generate_timetable, from the menu or the toolbar: it calls the
\* tab's start_generation whatever the state of the button and of the threads
MainWindowGenerateTimetable ==
    /\ Len(threads) < MaxRuns
    /\ \E s \in RunSettings : start_generation_process(s)

\* GenerationThread.run: the construction of the scheduler
RunConstruct(t) ==
    /\ threads[t].pc = "started"
    /\ LET k == TimetableScheduler(t)
           n == IF k > Len(schedulers) THEN k ELSE Len(schedulers)
       IN  /\ schedulers' = [i \in 1..n |-> IF i = k THEN SchedulerObject ELSE schedulers[i]]
           /\ threads' = [threads EXCEPT ![t].pc = "constructed", ![t].scheduler = k]
    /\ UNCHANGED <<generate_btn, generation_thread, scheduler_vars, returned>>

\* generate_timetable of the thread's scheduler up to the placement loop
RunGenerate(t) ==
    /\ threads[t].pc = "constructed"
    /\ schedulers' = [schedulers EXCEPT ![threads[t].scheduler] = SchedulerObject]
    /\ threads' = [threads EXCEPT
                      ![t].pc = "schedule",
                      ![t].sorted_subjects = SemesterSubjects(threads[t].settings.semester),
                      ![t].current_subject_index = 0]
    /\ UNCHANGED <<generate_btn, generation_thread, scheduler_vars, returned>>

\* one iteration of the placement loop on the thread's scheduler
RunScheduleSubject(t) ==
    /\ threads[t].pc = "schedule"
    /\ threads[t].current_subject_index < Len(threads[t].sorted_subjects)
    /\ LET self == schedulers[threads[t].scheduler]
           subject == threads[t].sorted_subjects[threads[t].current_subject_index + 1]
           Busy(schedule, d) == \E i \in 1..Len(schedule) : schedule[i] = d
           free == {d \in 1..threads[t].settings.days :
                       /\ ~Busy(self.faculty_schedule, d)
                       /\ ~Busy(self.venue_schedule, d)
                       /\ ~Busy(self.section_schedule, d)}
       IN  IF free # {}
           THEN schedulers' =
                  [schedulers EXCEPT ![threads[t].scheduler] =
                      [self EXCEPT
                          !.assignments = Append(@, [subject_code |-> subject.code,
                                                     day |-> Min(free)]),
                          !.faculty_schedule = Append(@, Min(free)),
                          !.venue_schedule = Append(@, Min(free)),
                          !.section_schedule = Append(@, Min(free))]]
           ELSE schedulers' =
                  [schedulers EXCEPT ![threads[t].scheduler] =
                      [self EXCEPT !.conflicts = Append(@, NoSlotConflict(subject))]]
    /\ threads' = [threads EXCEPT ![t].current_subject_index = @ + 1]
    /\ UNCHANGED <<generate_btn, generation_thread, scheduler_vars, returned>>

\* the loop has ended: generate_timetable returns the scheduler's two lists and
\* run emits generation_completed with them
RunReturn(t) ==
    /\ threads[t].pc = "schedule"
    /\ ~(threads[t].current_subject_index < Len(threads[t].sorted_subjects))
    /\ LET self == schedulers[threads[t].scheduler]
       IN  threads' = [threads EXCEPT
                          ![t].pc = "completed",
                          ![t].result = <<[assignments |-> self.assignments,
                                           conflicts |-> self.conflicts]>>]
    /\ UNCHANGED <<generate_btn, generation_thread, schedulers, scheduler_vars, returned>>

\* the tab's slot for the generation_completed signal of thread t
on_generation_completed(t) ==
    /\ threads[t].pc = "completed"
    /\ generate_btn' = TRUE
    /\ threads' = [threads EXCEPT ![t].pc = "handled"]
    /\ UNCHANGED <<generation_thread, schedulers, scheduler_vars, returned>>

WindowInit ==
    /\ WindowAtRest
    /\ returned = <<>>
    /\ db = Catalog(<<>>, <<>>, <<>>, <<>>)
    /\ settings = DefaultSettings({})
    /\ SchedulerConstructed

WindowNext ==
    \/ TabGenerateTimetable
    \/ MainWindowGenerateTimetable
    \/ \E t \in 1..Len(threads) : RunConstruct(t)
    \/ \E t \in 1..Len(threads) : RunGenerate(t)
    \/ \E t \in 1..Len(threads) : RunScheduleSubject(t)
    \/ \E t \in 1..Len(threads) : RunReturn(t)
    \/ \E t \in 1..Len(threads) : on_generation_completed(t)

WindowSpec == WindowInit /\ [][WindowNext]_vars

-----------------------------------------------------------------------------
(* Properties of the returned timetable *)

\* generate_timetable has returned (assignments, conflicts)
Returned == pc = "done"

StartMinutes(a) == _time_to_minutes(a.start_time)
EndMinutes(a) == StartMinutes(a) + a.duration * 60

\* [start_time, start_time + duration hours) of a and of b intersect on one day
RangesOverlap(a, b) ==
    /\ a.day = b.day
    /\ StartMinutes(a) < EndMinutes(b)
    /\ StartMinutes(b) < EndMinutes(a)

SubjectOf(a) == CHOOSE x \in {data.subjects[i] : i \in 1..Len(data.subjects)} :
                    x.id = a.subject_id
SectionOf(a) == CHOOSE x \in {data.sections[i] : i \in 1..Len(data.sections)} :
                    x.id = a.section_id
VenueOf(a) == CHOOSE x \in {data.venues[i] : i \in 1..Len(data.venues)} :
                    x.id = a.venue_id

Pairs == {<<i, j>> \in (1..Len(assignments)) \X (1..Len(assignments)) : i < j}

\* C1: no two returned assignments have the same instructor and the same day
\* with overlapping [start_time, start_time + duration hours) ranges.
C1_NoInstructorOverlap ==
    Returned =>
        \A p \in Pairs :
            ~(/\ assignments[p[1]].faculty_id = assignments[p[2]].faculty_id
              /\ RangesOverlap(assignments[p[1]], assignments[p[2]]))

\* C2: no two returned assignments of the same section and subsection fall on
\* the same day with overlapping ranges.
C2_NoSectionOverlap ==
    Returned =>
        \A p \in Pairs :
            ~(/\ assignments[p[1]].section_id = assignments[p[2]].section_id
              /\ assignments[p[1]].subsection = assignments[p[2]].subsection
              /\ RangesOverlap(assignments[p[1]], assignments[p[2]]))

\* C3: no two returned assignments use the same venue on the same day with
\* overlapping ranges.
C3_NoVenueOverlap ==
    Returned =>
        \A p \in Pairs :
            ~(/\ assignments[p[1]].venue_id = assignments[p[2]].venue_id
              /\ RangesOverlap(assignments[p[1]], assignments[p[2]]))

\* C4: no returned assignment's range intersects the configured lunch window
\* [lunch_start, lunch_end).
C4_NoLunchOverlap ==
    Returned =>
        \A i \in 1..Len(assignments) :
            LET lunch_start == _time_to_minutes(settings.lunch_start)
                lunch_end == _time_to_minutes(settings.lunch_end)
            IN  ~(/\ lunch_start < lunch_end
                  /\ StartMinutes(assignments[i]) < lunch_end
                  /\ lunch_start < EndMinutes(assignments[i]))

\* C5: every returned lab assignment has the configured lab_duration and its
\* whole range lies within [start_time, end_time) of the working day.
C5_LabWithinWorkingDay ==
    Returned =>
        \A i \in 1..Len(assignments) :
            SubjectOf(assignments[i]).is_lab =>
                /\ assignments[i].duration = settings.lab_duration
                /\ _time_to_minutes(settings.start_time) <= StartMinutes(assignments[i])
                /\ EndMinutes(assignments[i]) <= _time_to_minutes(settings.end_time)

\* C6: every returned assignment's venue has capacity greater than or equal to
\* the strength of its section.
C6_CapacityRespected ==
    Returned =>
        \A i \in 1..Len(assignments) :
            VenueOf(assignments[i]).capacity >= SectionOf(assignments[i]).strength

\* the assignments returned for subject x and section c (and subsection sub)
AssignmentsOfUnit(x, c, sub) ==
    {i \in 1..Len(assignments) :
        /\ assignments[i].subject_id = x.id
        /\ assignments[i].section_id = c.id
        /\ assignments[i].subsection = sub}

\* C7: a run that records no conflict returns exactly one assignment per
\* (lecture subject, selected section) and per (lab subject, section, subsection).
C7_OneAssignmentPerUnit ==
    (Returned /\ conflicts = <<>>) =>
        \A xi \in 1..Len(data.subjects), ci \in 1..Len(data.sections) :
            LET x == data.subjects[xi]
                c == data.sections[ci]
            IN  IF x.is_lab /\ c.subsections # <<>>
                THEN \A k \in 1..Len(c.subsections) :
                        Cardinality(AssignmentsOfUnit(x, c, c.subsections[k])) = 1
                ELSE Cardinality(AssignmentsOfUnit(x, c, None)) = 1

FacultyIds == {data.faculties[i].id : i \in 1..Len(data.faculties)}

\* C8: when the subject's preferred-instructor set has a member in the faculty
\* catalog, the assigned instructor is a member of that set.
C8_PreferredInstructorChosen ==
    Returned =>
        \A i \in 1..Len(assignments) :
            LET preferred == SubjectOf(assignments[i]).preferred_faculty_ids
            IN  (preferred \cap FacultyIds # {}) =>
                    assignments[i].faculty_id \in preferred

\* C9: a subject whose preferred-instructor set names only instructors absent
\* from the catalog gets a Conflict of category 'qualification'.
C9_QualificationConflictRecorded ==
    Returned =>
        \A xi \in 1..Len(data.subjects) :
            LET x == data.subjects[xi]
            IN  (x.preferred_faculty_ids # {} /\ x.preferred_faculty_ids \cap FacultyIds = {}) =>
                    \E k \in 1..Len(conflicts) :
                        /\ conflicts[k].type = "qualification"
                        /\ conflicts[k].subject_code = x.code

\* C10: the run never raises, whatever the catalog, and on return every subject
\* left without an assignment has a conflict carrying its subject code.
C10_ReturnsPartialResult ==
    /\ pc # "raised"
    /\ Returned =>
        \A xi \in 1..Len(data.subjects) :
            LET x == data.subjects[xi]
            IN  (\A i \in 1..Len(assignments) : assignments[i].subject_id # x.id) =>
                    \E k \in 1..Len(conflicts) : conflicts[k].subject_code = x.code

\* a run has returned a partial result: some subjects placed, others left
\* with a conflict
C10_Witness ==
    /\ Returned
    /\ Len(assignments) >= 1
    /\ Len(conflicts) >= 1

-----------------------------------------------------------------------------
(* Configuration of the time grid *)

\* the configurations whose time arithmetic is rejected: an empty or negative
\* working day, an empty or negative lunch window, a lunch start off the
\* hourly raster of the working day
StructurallyInvalid(s) ==
    LET start == _time_to_minutes(s.start_time)
        end == _time_to_minutes(s.end_time)
        lunch_start == _time_to_minutes(s.lunch_start)
        lunch_end == _time_to_minutes(s.lunch_end)
    IN  \/ end <= start
        \/ lunch_end <= lunch_start
        \/ (lunch_start - start) % 60 # 0

\* C11: with end <= start, or lunch_end <= lunch_start, or a lunch start that
\* is not a whole number of hours after start, building the grid fails: the
\* run never comes to attempt a placement nor to return lists.
C11_InvalidConfigurationFails ==
    StructurallyInvalid(settings) => pc \notin {"schedule", "done"}

-----------------------------------------------------------------------------
(* A sole instructor and a grid of one slot *)

\* the lecture venues of the loaded catalog
LectureVenues == SelectSeq(data.venues, LAMBDA v : v.venue_type = "lecture")

\* the run has returned for one instructor, a grid of exactly one slot and
\* n >= 1 lecture subjects of one hour, with a selected section and a lecture
\* venue to hold them
SoleInstructorOneSlot ==
    /\ Returned
    /\ Len(data.faculties) = 1
    /\ Len(time_slots) = 1
    /\ Len(sorted_subjects) >= 1
    /\ \A i \in 1..Len(sorted_subjects) : ~sorted_subjects[i].is_lab
    /\ settings.lecture_duration = 1
    /\ Len(data.sections) >= 1
    /\ Len(LectureVenues) >= 1

\* C12: for a sole instructor and a grid of exactly one slot, a run over n >= 1
\* one-hour lecture subjects returns exactly one assignment, of the first
\* subject in processing order, and exactly one 'constraint' conflict for each
\* of the other n - 1 subjects, in processing order, and nothing else.
C12_SoleInstructorOneSlot ==
    SoleInstructorOneSlot =>
        /\ Len(assignments) = 1
        /\ assignments[1].subject_id = sorted_subjects[1].id
        /\ assignments[1].faculty_id = data.faculties[1].id
        /\ assignments[1].day = time_slots[1].day
        /\ assignments[1].start_time = time_slots[1].start_time
        /\ Len(conflicts) = Len(sorted_subjects) - 1
        /\ \A k \in 1..Len(conflicts) :
              /\ conflicts[k].type = "constraint"
              /\ conflicts[k].subject_code = sorted_subjects[k + 1].code

\* the scenario with two subjects or more: one placed, the others in conflict
C12_Witness ==
    /\ SoleInstructorOneSlot
    /\ Len(sorted_subjects) >= 2
    /\ Len(assignments) = 1
    /\ Len(conflicts) >= 1

-----------------------------------------------------------------------------
(* Venue kinds *)

\* the kind of venue a subject asks for
KindOf(x) == IF x.is_lab THEN "lab" ELSE "lecture"

\* C13: every returned assignment's venue has the kind of its subject: a
\* lecture subject is in a 'lecture' venue, a lab subject in a 'lab' venue.
C13_VenueKindMatches ==
    Returned =>
        \A i \in 1..Len(assignments) :
            VenueOf(assignments[i]).venue_type = KindOf(SubjectOf(assignments[i]))

\* a lab has been placed in the lab venue of a catalog whose first venue is a
\* lecture venue
C13_Witness ==
    /\ Returned
    /\ \E i \in 1..Len(assignments) :
          /\ SubjectOf(assignments[i]).is_lab
          /\ VenueOf(assignments[i]).venue_type = "lab"
          /\ data.venues[1].venue_type = "lecture"

\* C14: when the catalog has venues but none of the kind a subject needs, the
\* venue domain falls back to all venues: the subject is placed in one of them
\* or left unplaced, and a 'venue' conflict of severity 'high' carries its code.
C14_VenueFallback ==
    Returned =>
        \A xi \in 1..Len(data.subjects) :
            LET x == data.subjects[xi]
            IN  (Len(data.venues) >= 1 /\ AvailableVenues(x, data.venues) = <<>>) =>
                    \E k \in 1..Len(conflicts) :
                        /\ conflicts[k].type = "venue"
                        /\ conflicts[k].severity = "high"
                        /\ conflicts[k].subject_code = x.code

-----------------------------------------------------------------------------
(* Daily teaching hours *)

RECURSIVE SumDurations(_)
SumDurations(seq) ==
    IF seq = <<>> THEN 0 ELSE Head(seq).duration + SumDurations(Tail(seq))

\* the hours an instructor teaches on a day in the returned assignments
HoursOn(faculty_id, day) ==
    SumDurations(SelectSeq(assignments,
                           LAMBDA a : a.faculty_id = faculty_id /\ a.day = day))

\* C15: in the returned assignments, for each instructor and each day, the sum
\* of the durations in hours of the instructor's assignments on that day is at
\* most the run's max_hours_per_day, multi-hour labs included.
C15_DailyHoursWithinLimit ==
    Returned =>
        \A f \in FacultyIds : \A d \in 1..Len(settings.days) :
            HoursOn(f, settings.days[d]) <= settings.max_hours_per_day

-----------------------------------------------------------------------------
(* Contents of the time grid *)

\* the hours start, start + 60, ... below end that do not begin within lunch
GridHours ==
    LET start == _time_to_minutes(settings.start_time)
        end == _time_to_minutes(settings.end_time)
        lunch_start == _time_to_minutes(settings.lunch_start)
        lunch_end == _time_to_minutes(settings.lunch_end)
    IN  {h \in {start + 60 * k : k \in 0..((end - start - 1) \div 60)} :
            ~(lunch_start <= h /\ h < lunch_end)}

Clock(h) == <<h \div 60, h % 60>>

\* the position of a slot's day in the configured days
DayIndex(slot) == CHOOSE d \in 1..Len(settings.days) : settings.days[d] = slot.day

\* C16: once built, the grid has for each configured day, in the given day
\* order, exactly one slot of one hour for each hour h = start, start + 60, ...
\* with h < end, except the hours with lunch_start <= h < lunch_end, in
\* ascending time order within the day, and nothing else. (Every slot is an
\* hour of the grid on a configured day; the slots ascend strictly by day and
\* hour, so none comes twice; and they are as many as days times hours, so
\* none is missing.)
C16_GridContents ==
    pc # "idle" =>
        LET hours == GridHours
            clocks == {Clock(h) : h \in hours}
            days == {settings.days[d] : d \in 1..Len(settings.days)}
        IN  /\ Len(time_slots) = Len(settings.days) * Cardinality(hours)
            /\ \A m \in 1..Len(time_slots) :
                  /\ time_slots[m].day \in days
                  /\ time_slots[m].start_time \in clocks
                  /\ time_slots[m].end_time
                        = Clock(_time_to_minutes(time_slots[m].start_time) + 60)
            /\ \A m \in 1..(Len(time_slots) - 1) :
                  \/ DayIndex(time_slots[m]) < DayIndex(time_slots[m + 1])
                  \/ /\ time_slots[m].day = time_slots[m + 1].day
                     /\ _time_to_minutes(time_slots[m].start_time)
                          < _time_to_minutes(time_slots[m + 1].start_time)

\* a grid of two days or more has been built with hours before the lunch
\* window, a lunch hour left out, and hours after it
C16_Witness ==
    /\ pc = "schedule"
    /\ Len(settings.days) >= 2
    /\ LET start == _time_to_minutes(settings.start_time)
           end == _time_to_minutes(settings.end_time)
           lunch_start == _time_to_minutes(settings.lunch_start)
           lunch_end == _time_to_minutes(settings.lunch_end)
       IN  /\ \E k \in 0..((end - start - 1) \div 60) :
                 lunch_start <= start + 60 * k /\ start + 60 * k < lunch_end
           /\ \E m, n \in 1..Len(time_slots) :
                 /\ _time_to_minutes(time_slots[m].start_time) < lunch_start
                 /\ _time_to_minutes(time_slots[n].start_time) >= lunch_end

-----------------------------------------------------------------------------
(* Conflict records *)

ConflictCategories ==
    {"qualification", "venue", "timing", "constraint", "solver", "index-bounds"}

ConflictSeverities == {"low", "medium", "high", "critical"}

-----------------------------------------------------------------------------
(* Solver strategies *)

\* C20: the caller can have the exact strategy run in place of the heuristic
\* one, and a run of it over a problem with no feasible solution (two lectures
\* or more for a sole instructor and a grid of one slot) returns no assignment
\* and exactly one conflict, of category 'solver' and severity 'critical'.
\* GenerationSettings carries no choice of strategy: every request runs the one
\* placement loop, so the request for the exact strategy is any request.
C20_ExactStrategyNoSolution ==
    (SoleInstructorOneSlot /\ Len(sorted_subjects) >= 2) =>
        /\ assignments = <<>>
        /\ Len(conflicts) = 1
        /\ conflicts[1].type = "solver"
        /\ conflicts[1].severity = "critical"

-----------------------------------------------------------------------------
(* Overlapping generation runs *)

\* what a run with these settings returns when no other run is started
RunAlone(s) ==
    LET subjects == SemesterSubjects(s.semester)
        placed == IF Len(subjects) < s.days THEN Len(subjects) ELSE s.days
    IN  [assignments |-> [i \in 1..placed |-> [subject_code |-> subjects[i].code, day |-> i]],
         conflicts |-> [k \in 1..(Len(subjects) - placed) |->
                           Conflict("constraint", subjects[placed + k].code,
                                    "No available slots found", "high")]]

IsPrefix(a, b) == Len(a) <= Len(b) /\ a = SubSeq(b, 1, Len(a))

\* C19: any two runs, overlapping in time or not and however started, use
\* distinct scheduler objects; the lists of a run's scheduler hold, while it
\* places subjects, the entries of that run alone; and each run returns what
\* it returns when executed alone.
C19_RunsIsolated ==
    /\ \A t, u \in 1..Len(threads) :
          (t # u /\ threads[t].scheduler # 0 /\ threads[u].scheduler # 0) =>
              threads[t].scheduler # threads[u].scheduler
    /\ \A t \in 1..Len(threads) :
          threads[t].pc = "schedule" =>
              LET self == schedulers[threads[t].scheduler]
                  alone == RunAlone(threads[t].settings)
              IN  /\ IsPrefix(self.assignments, alone.assignments)
                  /\ IsPrefix(self.conflicts, alone.conflicts)
                  /\ Len(self.assignments) + Len(self.conflicts)
                        = threads[t].current_subject_index
                  /\ self.faculty_schedule = [i \in 1..Len(self.assignments) |-> i]
                  /\ self.venue_schedule = self.faculty_schedule
                  /\ self.section_schedule = self.faculty_schedule
    /\ \A t \in 1..Len(threads) :
          threads[t].result # <<>> => threads[t].result[1] = RunAlone(threads[t].settings)

\* a second run, started while the button was disabled and the first run's
\* thread was placing subjects, has returned assignments; the first run is
\* still in its placement loop
C19_Witness ==
    /\ Len(threads) >= 2
    /\ ~generate_btn
    /\ threads[1].pc = "schedule"
    /\ threads[1].current_subject_index >= 1
    /\ threads[2].result # <<>>
    /\ Len(threads[2].result[1].assignments) >= 1

-----------------------------------------------------------------------------
(* Processing order and backtracking *)

\* a comes before b in the order: labs before lectures, then the longer
\* duration, then the smaller code
ComesBefore(a, b) ==
    \/ (a.is_lab /\ ~b.is_lab)
    \/ (a.is_lab = b.is_lab /\ a.duration > b.duration)
    \/ (a.is_lab = b.is_lab /\ a.duration = b.duration /\ a.code < b.code)

\* C21: the subjects are processed with all labs before all lectures, within
\* one kind the longer duration before the shorter, and within one kind and
\* duration in ascending order of their codes.
C21_ProcessingOrder ==
    pc # "idle" =>
        \A i, j \in 1..Len(sorted_subjects) :
            i < j => ComesBefore(sorted_subjects[i], sorted_subjects[j])

\* the subject the loop is at finds no placement
NoPlacement ==
    /\ pc = "schedule"
    /\ current_subject_index < Len(sorted_subjects)
    /\ _find_best_placement(sorted_subjects[current_subject_index + 1], data,
                            time_slots, settings) = <<>>

\* the busy-map entries of an assignment are gone from a map
Released(schedule, released, id, a) ==
    LET slot == TimeSlot(a.start_time, _calculate_end_time(a.start_time, a.duration), a.day)
    IN  \A i \in DOMAIN schedule : \A d \in DOMAIN schedule[i] :
            released[i][d] =
                IF i = id /\ d = a.day THEN RemoveFirst(schedule[i][d], slot)
                ELSE schedule[i][d]

\* C22: when the subject at hand cannot be placed and an earlier assignment is
\* committed, the step removes the most recently committed assignment from the
\* list, releases its instructor, venue and section entries from the busy-maps
\* and resumes from that assignment's subject.
C22_BacktrackUndoesLast ==
    [][(NoPlacement /\ assignments # <<>>) =>
          LET last == assignments[Len(assignments)]
          IN  /\ assignments' = SubSeq(assignments, 1, Len(assignments) - 1)
              /\ DOMAIN faculty_schedule' = DOMAIN faculty_schedule
              /\ Released(faculty_schedule, faculty_schedule', last.faculty_id, last)
              /\ Released(venue_schedule, venue_schedule', last.venue_id, last)
              /\ Released(section_schedule, section_schedule', last.section_id, last)
              /\ sorted_subjects[current_subject_index' + 1].id = last.subject_id
              /\ conflicts' = conflicts]_vars

-----------------------------------------------------------------------------
(* The validation pass *)

\* C23: when the returned assignments have two of one instructor that occupy a
\* common hour of a day, started at the same time or not, the returned
\* conflicts have one of severity 'critical' for the double-booking.
C23_DoubleBookingReported ==
    Returned =>
        ((\E p \in Pairs :
              /\ assignments[p[1]].faculty_id = assignments[p[2]].faculty_id
              /\ RangesOverlap(assignments[p[1]], assignments[p[2]]))
          => \E k \in 1..Len(conflicts) : conflicts[k].severity = "critical")

-----------------------------------------------------------------------------
(* Termination of the placement loop *)

\* the conflicts filed under a subject's code
ConflictsOf(x) == {k \in 1..Len(conflicts) : conflicts[k].subject_code = x.code}

\* C24: the placement loop terminates and never stalls: the run comes to its
\* return with every subject processed, and all along a subject passed over
\* without placement has exactly one conflict, of category 'constraint' and
\* severity 'high'.
C24_LoopTerminates ==
    /\ <>(pc = "done" /\ current_subject_index = Len(sorted_subjects))
    /\ [](\A i \in 1..Len(sorted_subjects) :
             (i <= current_subject_index
                /\ \A a \in 1..Len(assignments) :
                      assignments[a].subject_id # sorted_subjects[i].id)
             => /\ Cardinality(ConflictsOf(sorted_subjects[i])) = 1
                /\ \A k \in ConflictsOf(sorted_subjects[i]) :
                      conflicts[k].type = "constraint" /\ conflicts[k].severity = "high")

\* the loop has passed over a subject without placement, has gone on to place
\* or pass over a later one, and the run has returned
C24_Witness ==
    /\ Returned
    /\ Len(conflicts) >= 1
    /\ current_subject_index = Len(sorted_subjects)
    /\ \E k \in 1..Len(conflicts) :
          conflicts[k].subject_code # sorted_subjects[Len(sorted_subjects)].code

\* the hours already assigned to an instructor in the current run
AssignedHours(faculty_id) ==
    SumDurations(SelectSeq(assignments, LAMBDA a : a.faculty_id = faculty_id))

\* some slot and venue pass for the subject with instructor g, as things stand
FeasibleFor(g, subject) ==
    _find_best_placement(subject, [data EXCEPT !.faculties = <<data.faculties[g]>>],
                         time_slots, settings) # <<>>

\* C25: the instructor chosen for a subject has, among the instructors for whom
\* some slot and venue pass at that moment, the least time already assigned in
\* the current run.
C25_LeastLoadedInstructor ==
    [][(pc = "schedule" /\ Len(assignments') = Len(assignments) + 1) =>
          LET subject == sorted_subjects[current_subject_index + 1]
              chosen == assignments'[Len(assignments')].faculty_id
          IN  \A g \in 1..Len(data.faculties) :
                  FeasibleFor(g, subject) =>
                      AssignedHours(chosen) <= AssignedHours(data.faculties[g].id)]_vars

AssignmentsOf(x) == {a \in 1..Len(assignments) : assignments[a].subject_id = x.id}

ConstraintConflicts == {k \in 1..Len(conflicts) : conflicts[k].type = "constraint"}

\* C26: at the end of a run each loaded subject has either exactly one
\* assignment or exactly one 'constraint' conflict, never both, and the number
\* of assignments plus the number of 'constraint' conflicts is the number of
\* subjects.
C26_OneOutcomePerSubject ==
    Returned =>
        /\ \A i \in 1..Len(data.subjects) :
              LET x == data.subjects[i]
                  placed == Cardinality(AssignmentsOf(x))
                  refused == Cardinality(ConflictsOf(x) \cap ConstraintConflicts)
              IN  \/ placed = 1 /\ refused = 0
                  \/ placed = 0 /\ refused = 1
        /\ Len(assignments) + Cardinality(ConstraintConflicts) = Len(data.subjects)

\* a run of two subjects or more has returned with one placed and one refused
C26_Witness ==
    /\ Returned
    /\ Len(data.subjects) >= 2
    /\ assignments # <<>>
    /\ ConstraintConflicts # {}

\* the entries of a busy-map, each as <<id, day, position in the day's list>>
Entries(schedule) ==
    UNION {UNION {{<<id, d, k>> : k \in 1..Len(schedule[id][d])} :
                    d \in DOMAIN schedule[id]} : id \in DOMAIN schedule}

\* the busy-map holds as many entries with the assignment's start under id and
\* the assignment's day as there are assignments with that id, day and start
FiledOncePer(schedule, IdOf(_), a) ==
    LET id == IdOf(a)
        filed == IF id \in DOMAIN schedule /\ a.day \in DOMAIN schedule[id]
                 THEN {k \in 1..Len(schedule[id][a.day]) :
                          /\ schedule[id][a.day][k].start_time = a.start_time
                          /\ schedule[id][a.day][k].day = a.day}
                 ELSE {}
        same == {b \in 1..Len(assignments) :
                    /\ IdOf(assignments[b]) = id
                    /\ assignments[b].day = a.day
                    /\ assignments[b].start_time = a.start_time}
    IN  Cardinality(filed) = Cardinality(same)

\* C27: after every step each busy-map holds exactly one entry per committed
\* assignment, under the assignment's faculty, venue or section id and its
\* day, with its start time, and as many entries as there are assignments.
C27_BusyMapsMatchAssignments ==
    /\ \A i \in 1..Len(assignments) :
          /\ FiledOncePer(faculty_schedule, LAMBDA a : a.faculty_id, assignments[i])
          /\ FiledOncePer(venue_schedule, LAMBDA a : a.venue_id, assignments[i])
          /\ FiledOncePer(section_schedule, LAMBDA a : a.section_id, assignments[i])
    /\ Cardinality(Entries(faculty_schedule)) = Len(assignments)
    /\ Cardinality(Entries(venue_schedule)) = Len(assignments)
    /\ Cardinality(Entries(section_schedule)) = Len(assignments)

\* the loop is under way with two assignments of one instructor on one day
C27_Witness ==
    /\ pc = "schedule"
    /\ \E i, j \in 1..Len(assignments) :
          /\ i < j
          /\ assignments[i].faculty_id = assignments[j].faculty_id
          /\ assignments[i].day = assignments[j].day

\* the combinations of an instructor, a selected section, a grid slot and a
\* venue, each by its position in the loaded list
Combinations ==
    (1..Len(data.faculties)) \X (1..Len(data.sections)) \X (1..Len(time_slots))
        \X (1..Len(data.venues))

\* the venue is of the subject's kind, the slot takes the duration, and the
\* four checks against the busy-maps pass
CombinationPasses(subject, q) ==
    LET duration == IF subject.is_lab THEN settings.lab_duration
                    ELSE settings.lecture_duration
        faculty == data.faculties[q[1]]
        section == data.sections[q[2]]
        slot == time_slots[q[3]]
        venue == data.venues[q[4]]
    IN  /\ venue.venue_type = (IF subject.is_lab THEN "lab" ELSE "lecture")
        /\ _can_accommodate_duration(slot, duration, time_slots)
        /\ ~_faculty_has_conflict(faculty.id, slot, duration)
        /\ ~_venue_has_conflict(venue.id, slot, duration)
        /\ ~_section_has_conflict(section.id, slot, duration)
        /\ ~_faculty_exceeds_daily_limit(faculty.id, slot.day, duration,
                                         settings.max_hours_per_day)

\* q comes before r in the order instructor, section, slot, venue
ComesFirst(q, r) ==
    \E n \in 1..4 : q[n] < r[n] /\ \A m \in 1..(n - 1) : q[m] = r[m]

\* C28: a subject gets a 'constraint' conflict only when no combination
\* passes; when some combination passes, the subject is placed with the first
\* passing one in the order instructor, section, slot, venue.
C28_FirstPassingCombination ==
    [][(pc = "schedule" /\ current_subject_index' = current_subject_index + 1) =>
          LET subject == sorted_subjects[current_subject_index + 1]
              passing == {q \in Combinations : CombinationPasses(subject, q)}
          IN  IF passing = {}
              THEN /\ assignments' = assignments
                   /\ Len(conflicts') = Len(conflicts) + 1
                   /\ conflicts'[Len(conflicts')].type = "constraint"
                   /\ conflicts'[Len(conflicts')].subject_code = subject.code
              ELSE /\ conflicts' = conflicts
                   /\ Len(assignments') = Len(assignments) + 1
                   /\ \E q \in passing :
                         /\ \A r \in passing : r = q \/ ComesFirst(q, r)
                         /\ LET a == assignments'[Len(assignments')]
                            IN  /\ a.subject_id = subject.id
                                /\ a.faculty_id = data.faculties[q[1]].id
                                /\ a.section_id = data.sections[q[2]].id
                                /\ a.day = time_slots[q[3]].day
                                /\ a.start_time = time_slots[q[3]].start_time
                                /\ a.venue_id = data.venues[q[4]].id]_vars

\* a subject has been placed with a combination that is not the first of all:
\* the first instructor, the first section and the first venue did not pass
C28_Witness ==
    /\ pc = "schedule"
    /\ \E i \in 1..Len(assignments) :
          /\ assignments[i].faculty_id # data.faculties[1].id
          /\ assignments[i].section_id # data.sections[1].id
          /\ assignments[i].venue_id # data.venues[1].id

\* C29: a call of generate_timetable returns the lists that every earlier call
\* of the same scheduler with the same catalog and settings returned, whatever
\* the calls in between were given.
C29_RerunsAgree ==
    Returned =>
        \A k \in 1..Len(returned) :
            returned[k].settings = settings =>
                /\ returned[k].assignments = assignments
                /\ returned[k].conflicts = conflicts

\* the third call has returned, with the settings of the first and after a
\* second call with other settings that gave other lists; subjects were placed
\* and refused
C29_Witness ==
    /\ Returned
    /\ Len(returned) = 2
    /\ returned[1].settings = settings
    /\ returned[2].settings # settings
    /\ returned[2].assignments # assignments
    /\ assignments # <<>>
    /\ conflicts # <<>>

\* the key the validation pass files an assignment under
FacultyKey(a) == <<a.faculty_id, a.day, a.start_time>>

\* C30: in every state of a run no two committed assignments have the same
\* (faculty_id, day, start_time); the validation pass therefore finds nothing,
\* and no conflict of category 'faculty' is in the list.
C30_NoDuplicateFacultyKey ==
    /\ \A i, j \in 1..Len(assignments) :
          i # j => FacultyKey(assignments[i]) # FacultyKey(assignments[j])
    /\ \A k \in 1..Len(conflicts) : conflicts[k].type # "faculty"
    /\ pc # "raised"

\* the validation pass has gone over two assignments of one instructor on one
\* day and the run has returned
C30_Witness ==
    /\ Returned
    /\ \E i, j \in 1..Len(assignments) :
          /\ i # j
          /\ assignments[i].faculty_id = assignments[j].faculty_id
          /\ assignments[i].day = assignments[j].day
          /\ assignments[i].start_time # assignments[j].start_time

=============================================================================
